---------------------------- MODULE Spec2Model ----------------------------
(***************************************************************************)
(* A model of skspatial.objects.triangle.Triangle.                        *)
(*                                                                         *)
(* Numbers.  Coordinates are exact rationals.  A Point or a Vector is a   *)
(* record [num, den]: the tuple num of integer numerators over the one    *)
(* positive denominator den, kept in lowest terms.  A scalar is a record  *)
(* [n, d], also in lowest terms.  A length, a norm or an area is the      *)
(* square root of a rational and is carried as that rational, its square  *)
(* (the field sq): the square root is strictly increasing, so equality    *)
(* and order of lengths are equality and order of their squares.  An      *)
(* angle is carried as the argument handed to math.acos.                  *)
(*                                                                         *)
(* Calls.  Every call ends in a result record [exc, msg, val]: exc is     *)
(* "none" and val the returned value, or exc is the class of the raised   *)
(* exception and msg its message.                                         *)
(***************************************************************************)
EXTENDS Integers, Sequences, FiniteSets

\* Bound of the model: the coordinates of the input points run over 0..MaxCoord.
MaxCoord == 1

\* The dimensions of the grid of input points: one (three such points are
\* always collinear), two and three (where the cross product is defined).
Dims == {1, 2, 3}

---------------------------------------------------------------------------
\* Results of calls.

Ok(v) == [exc |-> "none", msg |-> "", val |-> v]

Raise(e, m) == [exc |-> e, msg |-> m, val |-> "none"]

MsgDimension == "The points must have the same dimension."

MsgCollinear == "The points must not be collinear."

MsgSide == "The side must be 'a', 'b', or 'c'."

MsgVertex == "The vertex must be 'A', 'B', or 'C'."

MsgCross == "The desired dimension cannot be less than the array dimension."

MsgLine == "The direction vector must not be the zero vector."

MsgParallel == "The lines must not be parallel."

---------------------------------------------------------------------------
\* Exact arithmetic.

Abs(x) == IF x < 0 THEN -x ELSE x

Max(x, y) == IF x >= y THEN x ELSE y

RECURSIVE Gcd(_, _)
Gcd(x, y) == IF y = 0 THEN Abs(x) ELSE Gcd(y, x % Abs(y))

RECURSIVE GcdSeq(_)
GcdSeq(s) == IF s = <<>> THEN 0 ELSE Gcd(Head(s), GcdSeq(Tail(s)))

RECURSIVE SumSeq(_)
SumSeq(s) == IF s = <<>> THEN 0 ELSE Head(s) + SumSeq(Tail(s))

\* The scalar n/d (d # 0) in lowest terms with a positive denominator.
Rat(n, d) ==
    LET g == Gcd(n, d)
        s == IF d < 0 THEN -1 ELSE 1
    IN  [n |-> s * (n \div g), d |-> s * (d \div g)]

\* The tuple num over the denominator den (den > 0) in lowest terms.
RatVec(num, den) ==
    LET g == Gcd(GcdSeq(num), den)
    IN  [num |-> [i \in 1..Len(num) |-> num[i] \div g], den |-> den \div g]

RatLt(x, y) == x.n * y.d < y.n * x.d

RatLe(x, y) == x.n * y.d <= y.n * x.d

RatMul(x, y) == Rat(x.n * y.n, x.d * y.d)

RatSub(x, y) == Rat(x.n * y.d - y.n * x.d, x.d * y.d)

---------------------------------------------------------------------------
\* Point and Vector: the numeric tuples the Triangle is built from.

\* Point(array): the point of a coordinate sequence.
Point(array) == RatVec(array, 1)

Dimension(u) == Len(u.num)

IsZero(u) == \A i \in 1..Dimension(u) : u.num[i] = 0

VecAdd(u, v) ==
    RatVec([i \in 1..Dimension(u) |-> u.num[i] * v.den + v.num[i] * u.den],
           u.den * v.den)

VecSub(u, v) ==
    RatVec([i \in 1..Dimension(u) |-> u.num[i] * v.den - v.num[i] * u.den],
           u.den * v.den)

\* The scalar c times the vector u.
VecScale(c, u) ==
    RatVec([i \in 1..Dimension(u) |-> c.n * u.num[i]], c.d * u.den)

VecNeg(u) == [num |-> [i \in 1..Dimension(u) |-> -u.num[i]], den |-> u.den]

\* Vector.from_points(a, b): the vector from point a to point b.
from_points(a, b) == VecSub(b, a)

\* Vector.dot
dot(u, v) ==
    Rat(SumSeq([i \in 1..Dimension(u) |-> u.num[i] * v.num[i]]), u.den * v.den)

\* Vector.norm: the Euclidean norm, carried as its square.
norm(u) == [sq |-> dot(u, u)]

\* Point.distance_point: the Euclidean distance, carried as its square.
distance_point(a, b) == norm(from_points(a, b))

\* Vector.set_dimension(3) of a vector of at most three coordinates.
Pad3(u) ==
    [num |-> [i \in 1..3 |-> IF i <= Dimension(u) THEN u.num[i] ELSE 0],
     den |-> u.den]

\* Vector.cross: both vectors are set to three dimensions first, which a
\* vector of more than three coordinates refuses.
cross(u, v) ==
    IF Dimension(u) > 3 \/ Dimension(v) > 3
    THEN Raise("ValueError", MsgCross)
    ELSE LET a == Pad3(u).num
             b == Pad3(v).num
         IN  Ok(RatVec(<< a[2] * b[3] - a[3] * b[2],
                          a[3] * b[1] - a[1] * b[3],
                          a[1] * b[2] - a[2] * b[1] >>, u.den * v.den))

\* Vector.is_parallel: every 2x2 minor of the two vectors is zero.
is_parallel(u, v) ==
    \A i, j \in 1..Dimension(u) : u.num[i] * v.num[j] = u.num[j] * v.num[i]

\* Points([a, b, c]).are_collinear(): the vectors from the first point to
\* the others are parallel.
are_collinear(a, b, c) == is_parallel(from_points(a, b), from_points(a, c))

---------------------------------------------------------------------------
\* Line: a point and a direction that is not the zero vector.

Line(point, direction) ==
    IF IsZero(direction)
    THEN Raise("ValueError", MsgLine)
    ELSE Ok([point |-> point, direction |-> direction])

\* Line.from_points(a, b): the line through a with the direction from a to b.
Line_from_points(a, b) == Line(a, from_points(a, b))

\* Vector.project_vector: the projection of the vector v onto the vector u.
project_vector(u, v) ==
    LET uv == dot(u, v)
        uu == dot(u, u)
    IN  VecScale(Rat(uv.n * uu.d, uv.d * uu.n), u)

\* Line.project_point: the projection of the point p onto the line.
project_point(line, p) ==
    VecAdd(line.point, project_vector(line.direction, from_points(line.point, p)))

\* Line.contains_point: the point lies on the line.
contains_point(line, p) == is_parallel(from_points(line.point, p), line.direction)

\* Line.intersect_line: the point where two lines meet, found by solving
\* point_a + s * direction_a = point_b + t * direction_b for s and t.
intersect_line(line_a, line_b) ==
    LET da == line_a.direction
        db == line_b.direction
        w == from_points(line_a.point, line_b.point)
        aa == dot(da, da)
        bb == dot(db, db)
        ab == dot(da, db)
        wa == dot(w, da)
        wb == dot(w, db)
        det == RatSub(RatMul(aa, bb), RatMul(ab, ab))
        s_num == RatSub(RatMul(wa, bb), RatMul(wb, ab))
        t_num == RatSub(RatMul(wa, ab), RatMul(wb, aa))
        s == Rat(s_num.n * det.d, s_num.d * det.n)
        t == Rat(t_num.n * det.d, t_num.d * det.n)
        on_a == VecAdd(line_a.point, VecScale(s, da))
        on_b == VecAdd(line_b.point, VecScale(t, db))
    IN  IF is_parallel(da, db)
        THEN Raise("ValueError", MsgParallel)
        ELSE IF on_a # on_b
        THEN Raise("ValueError", "The lines must be coplanar.")
        ELSE Ok(on_a)

---------------------------------------------------------------------------
\* math.isclose(x, y, rel_tol = p/q) with abs_tol left at 0.0, on exact values:
\* |x - y| <= rel_tol * max(|x|, |y|).

\* Of two non-negative rationals.  With X and Y the two values over their
\* common denominator, X - Y <= (p/q) * X for X >= Y; the left side is an
\* integer, so this is X - Y <= floor(p * X / q).
isclose(x, y, kwargs) ==
    LET X == Max(x.n * y.d, y.n * x.d)
        Y == x.n * y.d + y.n * x.d - X
        p == kwargs.rel_tol.n
        q == kwargs.rel_tol.d
    IN  X - Y <= (p * X) \div q

\* Of two lengths carried as their squares x.sq and y.sq.  With X >= Y the
\* squares over their common denominator, sqrt(X) - sqrt(Y) <= (p/q) * sqrt(X)
\* is (q - p)^2 * X <= q^2 * Y when p < q, that is
\* X - Y <= floor((2pX - ceil(p^2 * X / q)) / q), which needs no product with q.
isclose_sqrt(x, y, kwargs) ==
    LET X == Max(x.sq.n * y.sq.d, y.sq.n * x.sq.d)
        Y == x.sq.n * y.sq.d + y.sq.n * x.sq.d - X
        p == kwargs.rel_tol.n
        q == kwargs.rel_tol.d
    IN  \/ p >= q
        \/ X - Y <= (2 * p * X - ((p * p * X + q - 1) \div q)) \div q

---------------------------------------------------------------------------
\* Triangle.

\* The names getattr finds on a Triangle: the attributes __init__ sets and
\* the methods the class defines.
Attributes ==
    {"point_a", "point_b", "point_c", "dimension",
     "multiple", "normal", "area", "points", "lines", "side_length",
     "side_lengths", "angle", "altitude", "orthocenter", "classify",
     "is_right", "plot_2d", "plot_3d", "plotter"}

\* Triangle.__init__ without its collinearity test.
Triangle_NoCollinearityTest(point_a, point_b, point_c) ==
    LET a == Point(point_a)
        b == Point(point_b)
        c == Point(point_c)
    IN  IF ~(Dimension(a) = Dimension(b) /\ Dimension(b) = Dimension(c))
        THEN Raise("ValueError", MsgDimension)
        ELSE Ok([point_a |-> a, point_b |-> b, point_c |-> c,
                 dimension |-> Dimension(a)])

\* Triangle.__init__
Triangle(point_a, point_b, point_c) ==
    LET a == Point(point_a)
        b == Point(point_b)
        c == Point(point_c)
    IN  IF ~(Dimension(a) = Dimension(b) /\ Dimension(b) = Dimension(c))
        THEN Raise("ValueError", MsgDimension)
        ELSE IF are_collinear(a, b, c)
        THEN Raise("ValueError", MsgCollinear)
        ELSE Ok([point_a |-> a, point_b |-> b, point_c |-> c,
                 dimension |-> Dimension(a)])

\* Triangle.__repr__
repr(t) == Ok(<<"Triangle", t.point_a, t.point_b, t.point_c>>)

\* Triangle.normal with the two edge vectors in the other order.
normal_Reversed(t) ==
    LET vector_ab == from_points(t.point_a, t.point_b)
        vector_ac == from_points(t.point_a, t.point_c)
    IN  cross(vector_ac, vector_ab)

\* Triangle.normal
normal(t) ==
    LET vector_ab == from_points(t.point_a, t.point_b)
        vector_ac == from_points(t.point_a, t.point_c)
    IN  cross(vector_ab, vector_ac)

\* Triangle.area without the factor 0.5.
area_NoHalf(t) ==
    LET vector_ab == from_points(t.point_a, t.point_b)
        vector_ac == from_points(t.point_a, t.point_c)
        n == cross(vector_ab, vector_ac)
    IN  IF n.exc # "none" THEN n ELSE Ok(norm(n.val))

\* Triangle.area: half the norm of the normal, so a quarter of its square.
area(t) ==
    LET n == normal(t)
    IN  IF n.exc # "none" THEN n
        ELSE Ok([sq |-> Rat(norm(n.val).sq.n, 4 * norm(n.val).sq.d)])

\* Triangle.points
points(t) == Ok(<<t.point_a, t.point_b, t.point_c>>)

\* Triangle.lines
lines(t) ==
    LET line_ab == Line_from_points(t.point_a, t.point_b)
        line_bc == Line_from_points(t.point_b, t.point_c)
        line_ca == Line_from_points(t.point_c, t.point_a)
    IN  IF line_ab.exc # "none" THEN line_ab
        ELSE IF line_bc.exc # "none" THEN line_bc
        ELSE IF line_ca.exc # "none" THEN line_ca
        ELSE Ok(<<line_ab.val, line_bc.val, line_ca.val>>)

\* Triangle.side_length with side 'a' taken between the vertices A and B and
\* side 'c' between B and C.
side_length_Shifted(t, side) ==
    IF side = "a" THEN Ok(distance_point(t.point_a, t.point_b))
    ELSE IF side = "b" THEN Ok(distance_point(t.point_a, t.point_c))
    ELSE IF side = "c" THEN Ok(distance_point(t.point_b, t.point_c))
    ELSE Raise("ValueError", MsgSide)

\* Triangle.side_length
side_length(t, side) ==
    IF side = "a" THEN Ok(distance_point(t.point_b, t.point_c))
    ELSE IF side = "b" THEN Ok(distance_point(t.point_a, t.point_c))
    ELSE IF side = "c" THEN Ok(distance_point(t.point_a, t.point_b))
    ELSE Raise("ValueError", MsgSide)

\* Triangle.side_lengths
side_lengths(t) ==
    LET a == side_length(t, "a")
        b == side_length(t, "b")
        c == side_length(t, "c")
    IN  IF a.exc # "none" THEN a
        ELSE IF b.exc # "none" THEN b
        ELSE IF c.exc # "none" THEN c
        ELSE Ok(<<a.val, b.val, c.val>>)

RECURSIVE multiple(_, _, _)

\* Triangle.angle, from the outcome of its call of multiple: the value handed
\* to math.acos is num / sqrt(den_sq), and acos refuses an argument outside
\* [-1, 1].
angle_of(lengths, vertex) ==
    LET a == lengths.val[1].sq
        b == lengths.val[2].sq
        c == lengths.val[3].sq
        arg(x, y, z) ==
            [num |-> RatSub(Rat(x.n * y.d + y.n * x.d, x.d * y.d), z),
             den_sq |-> Rat(4 * x.n * y.n, x.d * y.d)]
        acos(v) ==
            IF RatLt(v.den_sq, RatMul(v.num, v.num))
            THEN Raise("ValueError", "math domain error")
            ELSE Ok([acos |-> v])
    IN  IF lengths.exc # "none" THEN lengths
        ELSE IF vertex = "A" THEN acos(arg(b, c, a))
        ELSE IF vertex = "B" THEN acos(arg(a, c, b))
        ELSE IF vertex = "C" THEN acos(arg(a, b, c))
        ELSE Raise("ValueError", MsgVertex)

\* Triangle.angle.  The np_float decorator keeps the value.
angle(t, vertex) == angle_of(multiple(t, "length", <<"a", "b", "c">>), vertex)

\* Triangle.altitude with vertex A projected onto the line AB.
altitude_WrongLine(t, vertex) ==
    LET line_ab == Line_from_points(t.point_a, t.point_b).val
        line_ca == Line_from_points(t.point_c, t.point_a).val
    IN  IF vertex = "A"
        THEN Line_from_points(t.point_a, project_point(line_ab, t.point_a))
        ELSE IF vertex = "B"
        THEN Line_from_points(t.point_b, project_point(line_ca, t.point_b))
        ELSE IF vertex = "C"
        THEN Line_from_points(t.point_c, project_point(line_ab, t.point_c))
        ELSE Raise("ValueError", MsgVertex)

\* Triangle.altitude
altitude(t, vertex) ==
    LET l == lines(t)
        line_ab == l.val[1]
        line_bc == l.val[2]
        line_ca == l.val[3]
    IN  IF l.exc # "none" THEN l
        ELSE IF vertex = "A"
        THEN Line_from_points(t.point_a, project_point(line_bc, t.point_a))
        ELSE IF vertex = "B"
        THEN Line_from_points(t.point_b, project_point(line_ca, t.point_b))
        ELSE IF vertex = "C"
        THEN Line_from_points(t.point_c, project_point(line_ab, t.point_c))
        ELSE Raise("ValueError", MsgVertex)

\* The call method(x) of a method that multiple looked up by name.
Call(t, name_method, x) ==
    CASE name_method = "side_length" -> side_length(t, x)
      [] name_method = "angle" -> angle(t, x)
      [] name_method = "altitude" -> altitude(t, x)
      [] OTHER -> Raise("TypeError", name_method)

\* One more element of a list under construction: a call that raised ends it.
Cons(first, rest) ==
    IF first.exc # "none" THEN first
    ELSE IF rest.exc # "none" THEN rest
    ELSE Ok(<<first.val>> \o rest.val)

\* The list [method(x) for x in inputs]: the first call that raises ends it.
RECURSIVE Comprehension(_, _, _)
Comprehension(t, name_method, inputs) ==
    IF inputs = <<>> THEN Ok(<<>>)
    ELSE Cons(Call(t, name_method, Head(inputs)),
              Comprehension(t, name_method, Tail(inputs)))

\* Triangle.multiple
multiple(t, name_method, inputs) ==
    IF name_method \notin Attributes
    THEN Raise("AttributeError", name_method)
    ELSE Comprehension(t, name_method, inputs)

\* Triangle.orthocenter with the altitude of vertex A taken twice.
orthocenter_SameAltitude(t) ==
    LET line_alt_a == altitude(t, "A")
        line_alt_b == altitude(t, "A")
    IN  IF line_alt_a.exc # "none" THEN line_alt_a
        ELSE IF line_alt_b.exc # "none" THEN line_alt_b
        ELSE intersect_line(line_alt_a.val, line_alt_b.val)

\* Triangle.orthocenter
orthocenter(t) ==
    LET line_alt_a == altitude(t, "A")
        line_alt_b == altitude(t, "B")
    IN  IF line_alt_a.exc # "none" THEN line_alt_a
        ELSE IF line_alt_b.exc # "none" THEN line_alt_b
        ELSE intersect_line(line_alt_a.val, line_alt_b.val)

\* Triangle.classify, from the outcome of its call of multiple.
classify_of(lengths, kwargs) ==
    LET pairs == {<<1, 2>>, <<1, 3>>, <<2, 3>>}
        n_pairs_close ==
            Cardinality({pr \in pairs :
                isclose_sqrt(lengths.val[pr[1]], lengths.val[pr[2]], kwargs)})
    IN  IF lengths.exc # "none" THEN lengths
        ELSE IF n_pairs_close = 3 THEN Ok("equilateral")
        ELSE IF n_pairs_close = 1 THEN Ok("isosceles")
        ELSE Ok("scalene")

\* Triangle.classify
classify(t, kwargs) == classify_of(multiple(t, "length", <<"a", "b", "c">>), kwargs)

\* sorted() of three lengths: the permutation that puts them in ascending order.
Sorted(l) ==
    LET perm == CHOOSE f \in [1..3 -> 1..3] :
                    /\ \A i, j \in 1..3 : i # j => f[i] # f[j]
                    /\ RatLe(l[f[1]].sq, l[f[2]].sq)
                    /\ RatLe(l[f[2]].sq, l[f[3]].sq)
    IN  [i \in 1..3 |-> l[perm[i]]]

\* Triangle.is_right, from the outcome of its call of multiple: x ** 2 of a
\* length is the square it is carried as.
is_right_of(lengths, kwargs) ==
    LET s == Sorted(lengths.val)
        a == s[1].sq
        b == s[2].sq
        c == s[3].sq
    IN  IF lengths.exc # "none" THEN lengths
        ELSE Ok(isclose(Rat(a.n * b.d + b.n * a.d, a.d * b.d), c, kwargs))

\* Triangle.is_right
is_right(t, kwargs) == is_right_of(multiple(t, "length", <<"a", "b", "c">>), kwargs)

\* The loop over the points or lines that multiple returned: the drawing
\* itself is the plotting collaborator's, and the method returns None.
Plotted(parts) == IF parts.exc # "none" THEN parts ELSE Ok("None")

\* Triangle.plot_2d
plot_2d(t, part) ==
    IF part = "points" THEN Plotted(multiple(t, "point", <<"A", "B", "C">>))
    ELSE IF part = "lines" THEN Plotted(multiple(t, "line", <<"a", "b", "c">>))
    ELSE Ok("None")

\* Triangle.plot_3d
plot_3d(t, part) ==
    IF part = "points" THEN Plotted(multiple(t, "point", <<"A", "B", "C">>))
    ELSE IF part = "lines" THEN Plotted(multiple(t, "line", <<"a", "b", "c">>))
    ELSE Ok("None")

---------------------------------------------------------------------------
\* The program as a state machine: one Triangle(...) call, then any calls of
\* the methods of the instance it returned.

VARIABLES
    args,   \* the three sequences handed to Triangle(...), <<>> before the call
    made,   \* how the constructor ended: pending, returned (exc "none") or raised
    self,   \* the instance, NoInstance while there is none
    ret     \* the last method call: its name, its argument and its result

vars == <<args, made, self, ret>>

NoInstance ==
    [point_a |-> Point(<<>>), point_b |-> Point(<<>>), point_c |-> Point(<<>>),
     dimension |-> 0]

NoCall == [op |-> "none", arg |-> "", res |-> Ok("none")]

\* Vertices of the examples in the docstrings that lie off the unit grid.
Examples == {<<1, 2>>, <<2, 0>>}

\* Inputs of four coordinates, where the cross product is not defined: the
\* origin and the four unit points.
Points4 == {[i \in 1..4 |-> IF i = k THEN 1 ELSE 0] : k \in 0..4}

\* The coordinate sequences a caller may pass.
Arrays == UNION {[1..d -> 0..MaxCoord] : d \in Dims} \cup Points4 \cup Examples

\* Labels a caller may pass: the valid ones and some that are not.
SideLabels == {"a", "b", "c", "d"}

VertexLabels == {"A", "B", "C", "D"}

\* Keyword arguments of classify and is_right: none (math.isclose's default
\* rel_tol of 1e-09) and a loose relative tolerance.
Kwargs ==
    {[rel_tol |-> [n |-> 1, d |-> 1000000000]],
     [rel_tol |-> [n |-> 3, d |-> 10]]}

\* Arguments of multiple: a method name and the labels to call it with.
MethodNames == {"length", "side_length", "angle", "altitude"}

LabelLists == {<<"a", "b", "c">>, <<"A", "B", "C">>}

Parts == {"points", "lines", "other"}

Init ==
    /\ args = <<>>
    /\ made = [exc |-> "pending", msg |-> ""]
    /\ self = NoInstance
    /\ ret = NoCall

\* triangle = Triangle(point_a, point_b, point_c)
Construct ==
    /\ made.exc = "pending"
    /\ \E point_a, point_b, point_c \in Arrays :
          LET r == Triangle(point_a, point_b, point_c)
          IN  /\ args' = <<point_a, point_b, point_c>>
              /\ made' = [exc |-> r.exc, msg |-> r.msg]
              /\ self' = IF r.exc = "none" THEN r.val ELSE NoInstance
    /\ UNCHANGED ret

\* A method call on the instance, made once the caller is done with the result
\* of the call before: no method assigns to self.
Returns(op, arg, res) ==
    /\ made.exc = "none"
    /\ ret.op = "none"
    /\ ret' = [op |-> op, arg |-> arg, res |-> res]
    /\ UNCHANGED <<args, made, self>>

\* The caller drops the result of the last call.
Discard ==
    /\ ret.op # "none"
    /\ ret' = NoCall
    /\ UNCHANGED <<args, made, self>>

CallRepr == Returns("__repr__", "", repr(self))

CallNormal == Returns("normal", "", normal(self))

CallArea == Returns("area", "", area(self))

CallPoints == Returns("points", "", points(self))

CallLines == Returns("lines", "", lines(self))

CallSideLength == \E side \in SideLabels : Returns("side_length", side, side_length(self, side))

CallSideLengths == Returns("side_lengths", "", side_lengths(self))

CallAngle == \E vertex \in VertexLabels : Returns("angle", vertex, angle(self, vertex))

CallAltitude == \E vertex \in VertexLabels : Returns("altitude", vertex, altitude(self, vertex))

CallOrthocenter == Returns("orthocenter", "", orthocenter(self))

CallClassify == \E kwargs \in Kwargs : Returns("classify", kwargs, classify(self, kwargs))

CallIsRight == \E kwargs \in Kwargs : Returns("is_right", kwargs, is_right(self, kwargs))

CallMultiple ==
    \E name_method \in MethodNames, inputs \in LabelLists :
        Returns("multiple", <<name_method, inputs>>, multiple(self, name_method, inputs))

CallPlot2d == \E part \in Parts : Returns("plot_2d", part, plot_2d(self, part))

CallPlot3d == \E part \in Parts : Returns("plot_3d", part, plot_3d(self, part))

Next ==
    \/ Construct
    \/ CallRepr
    \/ CallNormal
    \/ CallArea
    \/ CallPoints
    \/ CallLines
    \/ CallSideLength
    \/ CallSideLengths
    \/ CallAngle
    \/ CallAltitude
    \/ CallOrthocenter
    \/ CallClassify
    \/ CallIsRight
    \/ CallMultiple
    \/ CallPlot2d
    \/ CallPlot3d
    \/ Discard

Spec == Init /\ [][Next]_vars

---------------------------------------------------------------------------
\* What the claims speak of, written from the call's arguments alone.

Valid == made.exc = "none"

SameDimension == Len(args[1]) = Len(args[2]) /\ Len(args[2]) = Len(args[3])

\* The largest coordinate among the arguments, and at least one.
Span == CHOOSE m \in 1..(MaxCoord + 2) :
            /\ \A k \in 1..3 : \A i \in 1..Len(args[k]) : args[k][i] <= m
            /\ m = 1 \/ \E k \in 1..3 : \E i \in 1..Len(args[k]) : args[k][i] = m

\* The three points lie on one line (two or three of them may coincide): the
\* steps from the first point to the other two are multiples of one another.
OnOneLine ==
    \E k, m \in -Span..Span :
        /\ k # 0 \/ m # 0
        /\ \A i \in 1..Len(args[1]) :
              k * (args[2][i] - args[1][i]) = m * (args[3][i] - args[1][i])

\* The square of the distance between the arguments j and k.
Dist2(j, k) ==
    SumSeq([i \in 1..Len(args[j]) |-> (args[j][i] - args[k][i]) * (args[j][i] - args[k][i])])

\* The coordinate i of argument k, zero beyond its dimension.
Coord(k, i) == IF i <= Len(args[k]) THEN args[k][i] ELSE 0

\* cross(point_b - point_a, point_c - point_a) of the arguments in the order
\* ord, each taken as a point of three coordinates.
CrossOf(ord) ==
    LET u == [i \in 1..3 |-> Coord(ord[2], i) - Coord(ord[1], i)]
        v == [i \in 1..3 |-> Coord(ord[3], i) - Coord(ord[1], i)]
    IN  << u[2] * v[3] - u[3] * v[2],
           u[3] * v[1] - u[1] * v[3],
           u[1] * v[2] - u[2] * v[1] >>

\* The instance with the vertices i and j exchanged.
Exchanged(i, j) ==
    LET p == <<self.point_a, self.point_b, self.point_c>>
        q == [p EXCEPT ![i] = p[j], ![j] = p[i]]
    IN  [point_a |-> q[1], point_b |-> q[2], point_c |-> q[3],
         dimension |-> self.dimension]

\* The vertex a label names, and the two other vertices.
VertexOf(label) ==
    IF label = "A" THEN self.point_a
    ELSE IF label = "B" THEN self.point_b ELSE self.point_c

OthersOf(label) ==
    IF label = "A" THEN <<self.point_b, self.point_c>>
    ELSE IF label = "B" THEN <<self.point_c, self.point_a>>
    ELSE <<self.point_a, self.point_b>>

\* The side lengths in the order a, b, c, as their squares.
Sides2 == <<Dist2(2, 3), Dist2(1, 3), Dist2(1, 2)>>

Len2(n) == [sq |-> [n |-> n, d |-> 1]]

\* The number of unordered pairs of side lengths that are close.
ClosePairs(kwargs) ==
    Cardinality({pr \in {<<1, 2>>, <<1, 3>>, <<2, 3>>} :
        isclose_sqrt(Len2(Sides2[pr[1]]), Len2(Sides2[pr[2]]), kwargs)})

\* The squares of the two shorter sides add up to the square of the longest,
\* within the tolerance.
Pythagorean(kwargs) ==
    LET total == Sides2[1] + Sides2[2] + Sides2[3]
        longest == Max(Sides2[1], Max(Sides2[2], Sides2[3]))
    IN  isclose([n |-> total - longest, d |-> 1], [n |-> longest, d |-> 1], kwargs)

DefaultKwargs == [rel_tol |-> [n |-> 1, d |-> 1000000000]]

---------------------------------------------------------------------------
\* C1.  Triangle(...) validates in a fixed order: if the three dimensions are
\* not all equal it fails with the dimension error, whether or not the points
\* would also be collinear; otherwise, if the three points lie on one line
\* (two or three of them may coincide), it fails with the degeneracy error;
\* otherwise it succeeds and dimension is the common dimension.  After a
\* failed construction there is no instance, and so no method call.
C1_ValidationOrder ==
    /\ (made.exc # "pending" /\ ret.op = "none") =>
          IF ~SameDimension
          THEN made = [exc |-> "ValueError", msg |-> MsgDimension]
          ELSE IF OnOneLine
          THEN made = [exc |-> "ValueError", msg |-> MsgCollinear]
          ELSE /\ made.exc = "none"
               /\ self.dimension = Len(args[1])
    /\ made.exc \notin {"pending", "none"} => self = NoInstance /\ ret.op = "none"

\* C1's case: a dimension error for points two of which coincide.
C1_Witness ==
    /\ made = [exc |-> "ValueError", msg |-> MsgDimension]
    /\ args[1] = args[3]
    /\ Len(args[2]) # Len(args[1])

\* What C2 says of the area that area() returned: it is a number, half the
\* norm of normal(), and strictly positive.
AreaLaw ==
    /\ ret.res.exc = "none"
    /\ normal(self).exc = "none"
    /\ RatMul(ret.res.val.sq, [n |-> 4, d |-> 1]) = norm(normal(self).val).sq
    /\ ret.res.val.sq.n > 0

\* C2 as stated: in every state after a successful construction, whatever
\* methods were called, the vertices and the dimension are those given to the
\* constructor and the vertices are not collinear, and whenever area() is
\* called it returns half the norm of normal(), strictly positive.
C2_Original ==
    Valid =>
        /\ self = [point_a |-> [num |-> args[1], den |-> 1],
                   point_b |-> [num |-> args[2], den |-> 1],
                   point_c |-> [num |-> args[3], den |-> 1],
                   dimension |-> Len(args[1])]
        /\ ~OnOneLine
        /\ ret.op = "area" => AreaLaw

\* C2, amended: the same, with area() and normal() spoken of only for a
\* triangle of at most three dimensions.
C2_StateFixedAreaPositive ==
    Valid =>
        /\ self = [point_a |-> [num |-> args[1], den |-> 1],
                   point_b |-> [num |-> args[2], den |-> 1],
                   point_c |-> [num |-> args[3], den |-> 1],
                   dimension |-> Len(args[1])]
        /\ ~OnOneLine
        /\ (ret.op = "area" /\ self.dimension <= 3) => AreaLaw

\* C2's case: a triangle in space, after area() returned its positive area.
C2_Witness ==
    /\ Valid
    /\ self.dimension = 3
    /\ ret.op = "area"
    /\ ret.res.exc = "none"
    /\ ret.res.val.sq.n > 0

C4_ClassifyLabel ==
    (Valid /\ ret.op = "classify") =>
        /\ ret.res.exc = "none"
        /\ ret.res.val = IF ClosePairs(ret.arg) = 3 THEN "equilateral"
                         ELSE IF ClosePairs(ret.arg) = 1 THEN "isosceles"
                         ELSE "scalene"

\* C5.  is_right() returns whether the squares of the two shorter sides add up
\* to the square of the longest within the tolerance, whatever the order of
\* the vertices: True for (0,0),(0,1),(1,0) and False for (0,0),(1,2),(2,0).
C5_IsRight ==
    (Valid /\ ret.op = "is_right") =>
        /\ ret.res.exc = "none"
        /\ ret.res.val = Pythagorean(ret.arg)
        /\ (args = << <<0, 0>>, <<0, 1>>, <<1, 0>> >> /\ ret.arg = DefaultKwargs)
              => ret.res.val = TRUE
        /\ (args = << <<0, 0>>, <<1, 2>>, <<2, 0>> >> /\ ret.arg = DefaultKwargs)
              => ret.res.val = FALSE

\* C6.  angle(v) and altitude(v) with a label outside 'A', 'B', 'C', and
\* side_length(s) with a label outside 'a', 'b', 'c', fail with the
\* invalid-argument error of the label, and with no other error.
C6_LabelValidation ==
    /\ (Valid /\ ret.op \in {"angle", "altitude"} /\ ret.arg \notin {"A", "B", "C"})
          => ret.res = Raise("ValueError", MsgVertex)
    /\ (Valid /\ ret.op = "side_length" /\ ret.arg \notin {"a", "b", "c"})
          => ret.res = Raise("ValueError", MsgSide)

\* C7.  side_length of 'a', 'b', 'c' is the distance between the two vertices
\* other than the one the label names, and side_lengths() is the triple of the
\* three in the order a, b, c.
C7_SideLengths ==
    /\ (Valid /\ ret.op = "side_length" /\ ret.arg = "a") => ret.res = Ok(Len2(Dist2(2, 3)))
    /\ (Valid /\ ret.op = "side_length" /\ ret.arg = "b") => ret.res = Ok(Len2(Dist2(1, 3)))
    /\ (Valid /\ ret.op = "side_length" /\ ret.arg = "c") => ret.res = Ok(Len2(Dist2(1, 2)))
    /\ (Valid /\ ret.op = "side_lengths") =>
          /\ ret.res = Ok(<<Len2(Dist2(2, 3)), Len2(Dist2(1, 3)), Len2(Dist2(1, 2))>>)
          /\ ret.res.val = <<side_length(self, "a").val, side_length(self, "b").val,
                             side_length(self, "c").val>>

\* C7's case: side_lengths() of a triangle whose three sides all differ.
C7_Witness ==
    /\ Valid
    /\ ret.op = "side_lengths"
    /\ ret.res.exc = "none"
    /\ ret.res.val[1] # ret.res.val[2]
    /\ ret.res.val[1] # ret.res.val[3]
    /\ ret.res.val[2] # ret.res.val[3]

\* What C8 says of the normal that normal() returned.
NormalLaw ==
    /\ ret.res = Ok([num |-> CrossOf(<<1, 2, 3>>), den |-> 1])
    /\ \A pr \in {<<1, 2>>, <<1, 3>>, <<2, 3>>} :
          normal(Exchanged(pr[1], pr[2])) = Ok(VecNeg(ret.res.val))
    /\ args = << <<0, 0>>, <<1, 0>>, <<0, 1>> >> => ret.res.val.num = <<0, 0, 1>>
    /\ args = << <<0, 0>>, <<0, 1>>, <<1, 0>> >> => ret.res.val.num = <<0, 0, -1>>

\* C8 as stated: for every valid triangle normal() is
\* cross(point_b - point_a, point_c - point_a), and exchanging two vertices
\* gives the exact negation; (0,0),(1,0),(0,1) gives (0,0,1) and
\* (0,0),(0,1),(1,0) gives (0,0,-1).
C8_Original == (Valid /\ ret.op = "normal") => NormalLaw

\* C8, amended: the same for every valid triangle of at most three dimensions.
C8_NormalCross == (Valid /\ ret.op = "normal" /\ self.dimension <= 3) => NormalLaw

\* C8's case: normal() of a triangle in space, none of whose coordinates is zero.
C8_Witness ==
    /\ Valid
    /\ ret.op = "normal"
    /\ self.dimension = 3
    /\ ret.res.exc = "none"
    /\ \A i \in 1..3 : ret.res.val.num[i] # 0

\* C9.  orthocenter() does not fail and returns the point where altitude('A')
\* and altitude('B') meet, which lies on altitude('C') too; for
\* (0,0),(0,1),(1,0) it is (0,0) and for (0,0),(1,2),(2,0) it is (1, 0.5).
C9_Orthocenter ==
    (Valid /\ ret.op = "orthocenter") =>
        /\ ret.res.exc = "none"
        /\ \A v \in {"A", "B", "C"} :
              /\ altitude(self, v).exc = "none"
              /\ contains_point(altitude(self, v).val, ret.res.val)
        /\ args = << <<0, 0>>, <<0, 1>>, <<1, 0>> >> => ret.res.val = [num |-> <<0, 0>>, den |-> 1]
        /\ args = << <<0, 0>>, <<1, 2>>, <<2, 0>> >> => ret.res.val = [num |-> <<2, 1>>, den |-> 2]

\* C9's case: an orthocenter that is none of the vertices.
C9_Witness ==
    /\ Valid
    /\ ret.op = "orthocenter"
    /\ ret.res.exc = "none"
    /\ ret.res.val \notin {self.point_a, self.point_b, self.point_c}

\* C10.  altitude(v) is a line through the vertex v and the projection of v
\* onto the line through the other two vertices: the projection lies on that
\* line, the direction is perpendicular to the opposite side and is not the
\* zero vector, and v is no further from its projection than from either of
\* the other two vertices.
C10_Altitude ==
    (Valid /\ ret.op = "altitude" /\ ret.arg \in {"A", "B", "C"}) =>
        /\ ret.res.exc = "none"
        /\ LET line == ret.res.val
               v == VertexOf(ret.arg)
               o == OthersOf(ret.arg)
               proj == VecAdd(line.point, line.direction)
               side == VecSub(o[2], o[1])
           IN  /\ line.point = v
               /\ is_parallel(VecSub(proj, o[1]), side)
               /\ dot(line.direction, side).n = 0
               /\ ~IsZero(line.direction)
               /\ RatLe(dot(line.direction, line.direction), dot(VecSub(o[1], v), VecSub(o[1], v)))
               /\ RatLe(dot(line.direction, line.direction), dot(VecSub(o[2], v), VecSub(o[2], v)))

\* C10's case: an altitude whose foot is neither of the other two vertices.
C10_Witness ==
    /\ Valid
    /\ ret.op = "altitude"
    /\ ret.res.exc = "none"
    /\ VecAdd(ret.res.val.point, ret.res.val.direction)
          \notin {self.point_a, self.point_b, self.point_c}

============================================================================
